---- MODULE Spec2Model ----
(***************************************************************************)
(* Model of src/movie_pipeline_group.py: the per-record callbacks ParseCsv, *)
(* CleanData, FilterRatingData, FilterBasicData, join_ratings and the       *)
(* 'mergedicts' lambda, and the way run() chains them.                      *)
(*                                                                          *)
(* Text is a sequence of one-character strings.  A Python value is a        *)
(* tagged record, so that values of different Python types can be compared. *)
(* A dict is a function from its keys to values.                            *)
(***************************************************************************)
EXTENDS Integers, Sequences, FiniteSets, Bags, TLC

VARIABLES
    line, rows, cleanedRows, pstage,            \* one raw line through ParseCsv | CleanData
    kind, cfg, rec0, prev, rec, napplied, emitted,
                                                \* one record through CleanData and a filter
    input, pcoll, grouped, pairs, lastMerge, sink, phase
                                                \* the whole pipeline of run()

vars == <<line, rows, cleanedRows, pstage, kind, cfg, rec0, prev, rec, napplied, emitted,
          input, pcoll, grouped, pairs, lastMerge, sink, phase>>

parseVars == <<line, rows, cleanedRows, pstage>>
recordVars == <<kind, cfg, rec0, prev, rec, napplied, emitted>>
pipeVars == <<input, pcoll, grouped, pairs, lastMerge, sink, phase>>

----------------------------------------------------------------------------
(* Bounds *)

\* longest raw line fed to ParseCsv alone
MaxLineLen == 4
\* longest raw field text fed to CleanData alone
MaxTextLen == 3
\* number of input lines of the two files together
MaxLines == 3

----------------------------------------------------------------------------
(* Python values *)

PyNone == [t |-> "None"]
PyStr(s) == [t |-> "str", s |-> s]
PyBool(b) == [t |-> "bool", b |-> b]
PyInt(n) == [t |-> "int", i |-> n]
\* a float is the decimal m / 10^e, kept in lowest terms (see Norm)
PyFloat(m, e) == [t |-> "float", m |-> m, e |-> e]
PyList(l) == [t |-> "list", l |-> l]
\* an exception leaving a callback
Raise(x) == [t |-> "raise", exc |-> x]

IsRaise(v) == DOMAIN v = {"t", "exc"}

RECURSIVE Pow10(_)
Pow10(e) == IF e = 0 THEN 1 ELSE 10 * Pow10(e - 1)

RECURSIVE Norm(_, _)
Norm(m, e) ==
    IF m = 0 THEN PyFloat(0, 0)
    ELSE IF e > 0 /\ m % 10 = 0 THEN Norm(m \div 10, e - 1)
    ELSE PyFloat(m, e)

\* Python truthiness, as used by 'if record[col]' and 'not record[...]'
Truthy(v) ==
    CASE v.t = "None" -> FALSE
      [] v.t = "str" -> v.s # <<>>
      [] v.t = "bool" -> v.b
      [] v.t = "int" -> v.i # 0
      [] v.t = "float" -> v.m # 0
      [] v.t = "list" -> v.l # <<>>

\* the string literals of the source, as text
SENTINEL == <<"\\", "N">>
ZERO == <<"0">>
MOVIE == <<"m", "o", "v", "i", "e">>

----------------------------------------------------------------------------
(* ParseCsv *)

TAB == "\t"
QUOTE == "\""
\* str.splitlines() ends a line at these (and at \v, \x1c-\x1e, \x85, U+2028
\* and U+2029, which behave as "\f" does)
LineBreaks == {"\n", "\r", "\f"}

RECURSIVE FirstBreak(_, _)
FirstBreak(s, i) ==
    IF i > Len(s) THEN 0
    ELSE IF s[i] \in LineBreaks THEN i
    ELSE FirstBreak(s, i + 1)

\* str.splitlines(): the line boundaries are dropped, "\r\n" is one boundary,
\* and a boundary at the very end opens no further line
RECURSIVE SplitLines(_)
SplitLines(s) ==
    IF s = <<>> THEN <<>>
    ELSE LET i == FirstBreak(s, 1) IN
         IF i = 0 THEN <<s>>
         ELSE LET skip == IF s[i] = "\r" /\ i < Len(s) /\ s[i + 1] = "\n" THEN 2 ELSE 1
              IN <<SubSeq(s, 1, i - 1)>> \o SplitLines(SubSeq(s, i + skip, Len(s)))

\* csv.reader's character automaton for the dialect of line 18: delimiter TAB,
\* quotechar '"', doublequote, no escapechar, not strict.  One call consumes the
\* line from position i and then the end of the line.
RECURSIVE ReadLine(_, _, _, _, _)
ReadLine(l, i, st, fields, field) ==
    IF i > Len(l) THEN
        \* end of line
        CASE st = "START_RECORD" -> [st |-> "START_RECORD", fields |-> fields, field |-> field]
          [] st = "IN_QUOTED_FIELD" -> [st |-> st, fields |-> fields, field |-> field]
          [] OTHER -> [st |-> "START_RECORD", fields |-> Append(fields, field), field |-> <<>>]
    ELSE LET c == l[i] IN
        CASE st \in {"START_RECORD", "START_FIELD"} ->
                IF c = QUOTE THEN ReadLine(l, i + 1, "IN_QUOTED_FIELD", fields, field)
                ELSE IF c = TAB THEN ReadLine(l, i + 1, "START_FIELD", Append(fields, field), <<>>)
                ELSE ReadLine(l, i + 1, "IN_FIELD", fields, Append(field, c))
          [] st = "IN_FIELD" ->
                IF c = TAB THEN ReadLine(l, i + 1, "START_FIELD", Append(fields, field), <<>>)
                ELSE ReadLine(l, i + 1, "IN_FIELD", fields, Append(field, c))
          [] st = "IN_QUOTED_FIELD" ->
                IF c = QUOTE THEN ReadLine(l, i + 1, "QUOTE_IN_QUOTED_FIELD", fields, field)
                ELSE ReadLine(l, i + 1, "IN_QUOTED_FIELD", fields, Append(field, c))
          [] st = "QUOTE_IN_QUOTED_FIELD" ->
                IF c = QUOTE THEN ReadLine(l, i + 1, "IN_QUOTED_FIELD", fields, Append(field, c))
                ELSE IF c = TAB THEN ReadLine(l, i + 1, "START_FIELD", Append(fields, field), <<>>)
                ELSE ReadLine(l, i + 1, "IN_FIELD", fields, Append(field, c))

\* csv.reader over the lines: a row ends when a line ends outside a quoted
\* field; a quoted field left open runs on into the next line, and the end of
\* the input closes it
RECURSIVE ReaderRows(_, _, _, _, _)
ReaderRows(ls, n, st, fields, field) ==
    IF n > Len(ls) THEN
        IF st = "IN_QUOTED_FIELD" THEN <<Append(fields, field)>> ELSE <<>>
    ELSE LET r == ReadLine(ls[n], 1, st, fields, field) IN
         IF r.st = "START_RECORD"
         THEN <<r.fields>> \o ReaderRows(ls, n + 1, "START_RECORD", <<>>, <<>>)
         ELSE ReaderRows(ls, n + 1, r.st, r.fields, r.field)

\* the key csv.DictReader files surplus fields under (restkey, Python's None)
RestKey == "None"

\* csv.DictReader.__next__ for one non-empty row: zip with the fieldnames, the
\* surplus under restkey as a list, the missing fieldnames as restval (None)
DictRow(col_names, row) ==
    LET lf == Len(col_names)
        lr == Len(row)
        named == {col_names[j] : j \in 1..lf}
        keys == IF lf < lr THEN named \cup {RestKey} ELSE named
        \* dict(zip(...)): a later duplicate of a name overwrites an earlier one
        last(k) == CHOOSE j \in 1..lf : col_names[j] = k /\ \A h \in (j + 1)..lf : col_names[h] # k
    IN [k \in keys |->
            IF k = RestKey /\ lf < lr THEN PyList(SubSeq(row, lf + 1, lr))
            ELSE IF last(k) <= lr THEN PyStr(row[last(k)])
            ELSE PyNone]

\* ParseCsv.process: the records the call yields, in order (DictReader skips
\* the empty rows)
ParseCsv(col_names, string) ==
    LET all == ReaderRows(SplitLines(string), 1, "START_RECORD", <<>>, <<>>)
        kept == SelectSeq(all, LAMBDA row : row # <<>>)
    IN [j \in 1..Len(kept) |-> DictRow(col_names, kept[j])]

columns_title_basic == <<"tconst", "titleType", "primaryTitle", "originalTitle",
                         "isAdult", "startYear", "endYear", "runtimeMinutes", "genres">>
columns_ratings == <<"tconst", "averageRating", "numVotes">>

----------------------------------------------------------------------------
(* CleanData *)

Digits == <<"0", "1", "2", "3", "4", "5", "6", "7", "8", "9">>
IsDigit(c) == \E d \in 1..10 : Digits[d] = c
DigitVal(c) == (CHOOSE d \in 1..10 : Digits[d] = c) - 1
AllDigits(s) == \A j \in 1..Len(s) : IsDigit(s[j])

RECURSIVE DigitsVal(_)
DigitsVal(s) ==
    IF s = <<>> THEN 0 ELSE 10 * DigitsVal(SubSeq(s, 1, Len(s) - 1)) + DigitVal(s[Len(s)])

Signed(s) == s # <<>> /\ s[1] \in {"+", "-"}
Unsigned(s) == IF Signed(s) THEN Tail(s) ELSE s
SignOf(s) == IF Signed(s) /\ s[1] = "-" THEN -1 ELSE 1

\* int(str) for text without whitespace and underscores: an optional sign and
\* one or more decimal digits, anything else is a ValueError
IntOfText(s) ==
    LET body == Unsigned(s) IN
    IF body # <<>> /\ AllDigits(body) THEN PyInt(SignOf(s) * DigitsVal(body))
    ELSE Raise("ValueError")

\* float(str) for text without whitespace, underscores, exponent and the
\* spellings of inf and nan: an optional sign, digits, at most one point and at
\* least one digit; anything else is a ValueError.  -0.0 equals 0.0.
FloatOfText(s) ==
    LET body == Unsigned(s)
        points == {j \in 1..Len(body) : body[j] = "."}
        p == IF points = {} THEN Len(body) + 1 ELSE CHOOSE j \in points : TRUE
        whole == SubSeq(body, 1, p - 1)
        frac == SubSeq(body, p + 1, Len(body))
    IN IF Cardinality(points) <= 1 /\ AllDigits(whole) /\ AllDigits(frac) /\ whole \o frac # <<>>
       THEN Norm(SignOf(s) * DigitsVal(whole \o frac), Len(frac))
       ELSE Raise("ValueError")

\* int(x) truncates a float towards zero
Trunc(m, e) == IF m >= 0 THEN m \div Pow10(e) ELSE -((-m) \div Pow10(e))

\* func(record[col]) of line 49, func being int or float
Apply(func, v) ==
    CASE v.t = "str" -> IF func = "int" THEN IntOfText(v.s) ELSE FloatOfText(v.s)
      [] v.t = "int" -> IF func = "int" THEN v ELSE Norm(v.i, 0)
      [] v.t = "bool" -> IF func = "int" THEN PyInt(IF v.b THEN 1 ELSE 0)
                         ELSE Norm(IF v.b THEN 1 ELSE 0, 0)
      [] v.t = "float" -> IF func = "int" THEN PyInt(Trunc(v.m, v.e)) ELSE v
      [] OTHER -> Raise("TypeError")

\* Coerce without the 'except ValueError' of lines 50-51
Coerce_NoExcept(func, v) == IF Truthy(v) THEN Apply(func, v) ELSE PyNone

\* lines 47-53: the new value of one numeric column
Coerce(func, v) ==
    IF Truthy(v)
    THEN LET x == Apply(func, v) IN IF x = Raise("ValueError") THEN PyNone ELSE x
    ELSE PyNone

\* CleanData._parse_numeric: the record after the call, or the exception
\* that leaves it
ParseNumeric(c, record, ttype) ==
    IF ttype \notin {"float", "int"} THEN Raise("AttributeError")
    ELSE LET cols == IF ttype = "float" THEN c.float_cols ELSE c.int_cols
             bad == {col \in cols : col \notin DOMAIN record}
             failed == {col \in cols \ bad : IsRaise(Coerce(ttype, record[col]))}
         IN IF bad # {} THEN Raise("KeyError")
            ELSE IF failed # {} THEN Coerce(ttype, record[CHOOSE col \in failed : TRUE])
            ELSE [k \in DOMAIN record |->
                     IF k \in cols THEN Coerce(ttype, record[k]) ELSE record[k]]

\* lines 57-60: map \N to None
MapSentinel(record) ==
    [k \in DOMAIN record |-> IF record[k] = PyStr(SENTINEL) THEN PyNone ELSE record[k]]

\* lines 62-66: the new value of one boolean column
CoerceBool(v) == IF v = PyStr(ZERO) THEN PyBool(FALSE) ELSE PyBool(TRUE)

ConvertBools(c, record) ==
    IF \E col \in c.bool_cols : col \notin DOMAIN record THEN Raise("KeyError")
    ELSE [k \in DOMAIN record |->
             IF k \in c.bool_cols THEN CoerceBool(record[k]) ELSE record[k]]

\* CleanData.process: the record it yields (the argument, rewritten in place),
\* or the exception that leaves it
CleanData(c, record) ==
    LET r1 == ConvertBools(c, MapSentinel(record))
        r2 == IF IsRaise(r1) THEN r1 ELSE ParseNumeric(c, r1, "int")
    IN IF IsRaise(r2) THEN r2 ELSE ParseNumeric(c, r2, "float")

\* CleanData(...) as constructed at lines 26-35, 132 and 138
Config(bool_cols, int_cols, float_cols) ==
    [bool_cols |-> bool_cols, int_cols |-> int_cols, float_cols |-> float_cols]
BasicConfig == Config({"isAdult"}, {"startYear", "endYear", "runtimeMinutes"}, {})
RatingConfig == Config({}, {"numVotes"}, {"averageRating"})

----------------------------------------------------------------------------
(* FilterRatingData, FilterBasicData *)

\* what a callback has yielded
Out(recs) == [t |-> "out", recs |-> recs]
Pending == [t |-> "pending"]

\* a number as the decimal m / 10^e
Decimal(v) ==
    CASE v.t = "int" -> [m |-> v.i, e |-> 0]
      [] v.t = "bool" -> [m |-> IF v.b THEN 1 ELSE 0, e |-> 0]
      [] v.t = "float" -> [m |-> v.m, e |-> v.e]
IsNumber(v) == v.t \in {"int", "bool", "float"}
\* Python's a >= b on numbers
GE(a, b) == Decimal(a).m * Pow10(Decimal(b).e) >= Decimal(b).m * Pow10(Decimal(a).e)

MinRating == PyFloat(5, 0)
MinStartYear == 1970

\* FilterRatingData.process with '>' for '>='
FilterRatingData_Above(record) ==
    IF "averageRating" \notin DOMAIN record THEN Raise("KeyError")
    ELSE IF ~Truthy(record["averageRating"]) THEN Out(<<>>)
    ELSE IF ~IsNumber(record["averageRating"]) THEN Raise("TypeError")
    ELSE IF ~GE(MinRating, record["averageRating"]) THEN Out(<<record>>)
    ELSE Out(<<>>)

\* FilterRatingData.process
FilterRatingData(record) ==
    IF "averageRating" \notin DOMAIN record THEN Raise("KeyError")
    ELSE IF ~Truthy(record["averageRating"]) THEN Out(<<>>)
    ELSE IF ~IsNumber(record["averageRating"]) THEN Raise("TypeError")
    ELSE IF GE(record["averageRating"], MinRating) THEN Out(<<record>>)
    ELSE Out(<<>>)

\* FilterBasicData.process with '>' for '>='
FilterBasicData_After(record) ==
    IF {"titleType", "isAdult", "startYear"} \ DOMAIN record # {} THEN Raise("KeyError")
    ELSE IF ~(/\ record["titleType"] = PyStr(MOVIE)
              /\ ~Truthy(record["isAdult"])
              /\ Truthy(record["startYear"])) THEN Out(<<>>)
    ELSE IF ~IsNumber(record["startYear"]) THEN Raise("TypeError")
    ELSE IF ~GE(PyInt(MinStartYear), record["startYear"]) THEN Out(<<record>>)
    ELSE Out(<<>>)

\* FilterBasicData.process
FilterBasicData(record) ==
    IF {"titleType", "isAdult", "startYear"} \ DOMAIN record # {} THEN Raise("KeyError")
    ELSE IF ~(/\ record["titleType"] = PyStr(MOVIE)
              /\ ~Truthy(record["isAdult"])
              /\ Truthy(record["startYear"])) THEN Out(<<>>)
    ELSE IF ~IsNumber(record["startYear"]) THEN Raise("TypeError")
    ELSE IF GE(record["startYear"], PyInt(MinStartYear)) THEN Out(<<record>>)
    ELSE Out(<<>>)

----------------------------------------------------------------------------
(* Input text *)

RECURSIVE JoinTab(_)
JoinTab(fields) ==
    IF fields = <<>> THEN <<>>
    ELSE IF Len(fields) = 1 THEN fields[1]
    ELSE fields[1] \o <<TAB>> \o JoinTab(Tail(fields))

\* all texts over an alphabet, up to a length
RECURSIVE TextsOver(_, _)
TextsOver(alphabet, n) ==
    IF n = 0 THEN {<<>>}
    ELSE LET shorter == TextsOver(alphabet, n - 1)
         IN shorter \cup {Append(s, c) : s \in {x \in shorter : Len(x) = n - 1}, c \in alphabet}

\* the number of fields str.split('\t') would find
FieldCount(s) == Cardinality({j \in 1..Len(s) : s[j] = TAB}) + 1

LineAlphabet == {"a", TAB, QUOTE, "\r"}
RawLines == TextsOver(LineAlphabet, MaxLineLen)

FieldAlphabet == {"0", "1", "7", ".", "-", "\\", "N"}
RawFields == {PyNone} \cup {PyStr(s) : s \in TextsOver(FieldAlphabet, MaxTextLen)}

NA == <<"N", "/", "A">>
TitleTypes == {MOVIE, <<"t", "v", "S", "e", "r", "i", "e", "s">>, SENTINEL}
Adults == {ZERO, <<"1">>, SENTINEL, <<>>}
Years == {<<"1", "9", "6", "9">>, <<"1", "9", "7", "0">>, <<"1", "9", "8", "5">>,
          ZERO, SENTINEL, NA, <<>>}
Ratings == {<<"7", ".", "2">>, <<"4", ".", "9">>, <<"5", ".", "0">>, <<"5">>,
            <<"0", ".", "0">>, SENTINEL, NA, <<>>}
Votes == {<<"1", "0">>, SENTINEL}

BasicLine(id, type, adult, year) ==
    JoinTab(<<id, type, <<"T">>, <<"T">>, adult, year, SENTINEL, <<"9", "0">>, <<"D">>>>)
RatingLine(id, rating, votes) == JoinTab(<<id, rating, votes>>)

----------------------------------------------------------------------------
(* One raw line through 'Parse CSV (Details)' and 'Clean data (Details)' *)

parseIdle == line = <<>> /\ rows = <<>> /\ cleanedRows = <<>> /\ pstage = "idle"
recordIdle ==
    /\ kind = "idle" /\ cfg = Config({}, {}, {}) /\ rec0 = PyNone /\ prev = PyNone
    /\ rec = PyNone /\ napplied = 0 /\ emitted = Pending
pipeIdle ==
    /\ input = <<>> /\ pcoll = <<>> /\ grouped = <<>> /\ pairs = <<>> /\ lastMerge = <<>>
    /\ sink = EmptyBag /\ phase = "idle"

InitParse ==
    /\ line \in RawLines
    /\ rows = <<>>
    /\ cleanedRows = <<>>
    /\ pstage = "raw"
    /\ recordIdle
    /\ pipeIdle

\* beam.ParDo(ParseCsv(columns_ratings)) on the line
ParseCsvStep ==
    /\ pstage = "raw"
    /\ rows' = ParseCsv(columns_ratings, line)
    /\ pstage' = "parsed"
    /\ UNCHANGED <<line, cleanedRows, recordVars, pipeVars>>

\* beam.ParDo(CleanData(...)) on the next record the parser yielded
CleanRowStep ==
    /\ pstage = "parsed"
    /\ Len(cleanedRows) < Len(rows)
    /\ cleanedRows' = Append(cleanedRows, CleanData(RatingConfig, rows[Len(cleanedRows) + 1]))
    /\ UNCHANGED <<line, rows, pstage, recordVars, pipeVars>>

NextParse == ParseCsvStep \/ CleanRowStep

SpecParse == InitParse /\ [][NextParse]_vars

----------------------------------------------------------------------------
(* One parsed record through CleanData and the filter of its dataset *)

ProbeConfigs ==
    {Config({"x"}, {}, {}), Config({}, {"x"}, {}), Config({}, {}, {"x"}), Config({}, {}, {})}

InitRecord ==
    /\ \/ /\ kind = "probe"
          /\ cfg \in ProbeConfigs
          /\ \E v \in RawFields, o \in {PyStr(SENTINEL), PyStr(ZERO)} :
                rec0 = [k \in {"x", "other"} |-> IF k = "x" THEN v ELSE o]
       \/ /\ kind = "basic"
          /\ cfg = BasicConfig
          /\ \E type \in TitleTypes, adult \in Adults, year \in Years :
                rec0 = ParseCsv(columns_title_basic, BasicLine(<<"A">>, type, adult, year))[1]
       \/ /\ kind = "rating"
          /\ cfg = RatingConfig
          /\ \E rating \in Ratings, votes \in Votes :
                rec0 = ParseCsv(columns_ratings, RatingLine(<<"A">>, rating, votes))[1]
    /\ prev = PyNone
    /\ rec = rec0
    /\ napplied = 0
    /\ emitted = Pending
    /\ parseIdle
    /\ pipeIdle

\* CleanData.process on the record; the pipeline applies it once, a second
\* application is what idempotence speaks of
CleanDataStep ==
    /\ napplied < 2
    /\ ~IsRaise(rec)
    /\ emitted = Pending
    /\ prev' = rec
    /\ rec' = CleanData(cfg, rec)
    /\ napplied' = napplied + 1
    /\ UNCHANGED <<kind, cfg, rec0, emitted, parseVars, pipeVars>>

FilterBasicStep ==
    /\ kind = "basic"
    /\ napplied = 1
    /\ ~IsRaise(rec)
    /\ emitted = Pending
    /\ emitted' = FilterBasicData(rec)
    /\ UNCHANGED <<kind, cfg, rec0, prev, rec, napplied, parseVars, pipeVars>>

FilterRatingStep ==
    /\ kind = "rating"
    /\ napplied = 1
    /\ ~IsRaise(rec)
    /\ emitted = Pending
    /\ emitted' = FilterRatingData(rec)
    /\ UNCHANGED <<kind, cfg, rec0, prev, rec, napplied, parseVars, pipeVars>>

NextRecord == CleanDataStep \/ FilterBasicStep \/ FilterRatingStep

SpecRecord == InitRecord /\ [][NextRecord]_vars

----------------------------------------------------------------------------
(* join_ratings and 'mergedicts' *)

\* itertools.product(a, b) of line 100, as the positions it pairs, in its order
Product(m, n) == [q \in 1..(m * n) |-> <<((q - 1) \div n) + 1, ((q - 1) % n) + 1>>]

\* join_ratings with zip for itertools.product
join_ratings_Zip(v) ==
    LET m == Len(v[2].movie_keys)
        n == Len(v[2].rating_keys)
    IN [q \in 1..(IF m < n THEN m ELSE n) |-> <<q, q>>]

\* join_ratings(v), v = (key, {'movie_keys': [...], 'rating_keys': [...]}): the
\* pairs of positions in the two lists
join_ratings(v) == Product(Len(v[2].movie_keys), Len(v[2].rating_keys))

\* the merge with the operands swapped, {**dd[1], **dd[0]}
MergeDicts_BasicWins(d0, d1) ==
    [out |-> [k \in DOMAIN d0 \cup DOMAIN d1 |-> IF k \in DOMAIN d0 THEN d0[k] ELSE d1[k]],
     left |-> d0,
     right |-> d1]

\* lambda dd: {**dd[0], **dd[1]}: the new dict, and the two dicts after the call
MergeDicts(d0, d1) ==
    [out |-> [k \in DOMAIN d0 \cup DOMAIN d1 |-> IF k \in DOMAIN d1 THEN d1[k] ELSE d0[k]],
     left |-> d0,
     right |-> d1]

----------------------------------------------------------------------------
(* The pipeline of run(): both files through parse, clean and filter, record
   by record in any order, then CoGroupByKey, join_ratings and the merge *)

Datasets == {"basic", "rating"}
Columns(d) == IF d = "basic" THEN columns_title_basic ELSE columns_ratings
Cleaner(d) == IF d = "basic" THEN BasicConfig ELSE RatingConfig
Filter(d, record) == IF d = "basic" THEN FilterBasicData(record) ELSE FilterRatingData(record)

RECURSIVE SeqToBag(_)
SeqToBag(q) == IF q = <<>> THEN EmptyBag ELSE SetToBag({q[1]}) (+) SeqToBag(Tail(q))

\* a bag as a list, in some order
RECURSIVE BagToSeq(_)
BagToSeq(b) ==
    IF b = EmptyBag THEN <<>>
    ELSE LET x == CHOOSE y \in BagToSet(b) : TRUE
         IN <<x>> \o BagToSeq(b (-) SetToBag({x}))

Year1985 == <<"1", "9", "8", "5">>
BasicLines ==
    {BasicLine(<<"A">>, MOVIE, ZERO, Year1985),
     BasicLine(<<"A">>, MOVIE, ZERO, <<"1", "9", "7", "0">>) \o <<TAB, "X">>,
     BasicLine(<<"B">>, MOVIE, ZERO, Year1985),
     BasicLine(<<"A">>, MOVIE, ZERO, <<"1", "9", "6", "0">>)}
RatingLines ==
    {RatingLine(<<"A">>, <<"7", ".", "2">>, <<"1", "0">>),
     RatingLine(<<"A">>, <<"8", ".", "0">>, <<"1", "0">>) \o <<TAB, "Y">>,
     RatingLine(<<"C">>, <<"6", ".", "0">>, <<"1", "0">>),
     RatingLine(<<"A">>, <<"4", ".", "9">>, SENTINEL)}

\* the contents of a file of at most n lines, each one of S: what
\* beam.io.ReadFromText hands on is the lines as a collection without order
FilesUpTo(S, n) == {SeqToBag(q) : q \in UNION {[1..m -> S] : m \in 0..n}}

Init ==
    /\ \E b \in FilesUpTo(BasicLines, MaxLines), r \in FilesUpTo(RatingLines, MaxLines) :
          /\ BagCardinality(b) + BagCardinality(r) <= MaxLines
          /\ input = [basic |-> b, rating |-> r]
    /\ pcoll = [d \in Datasets |->
                   [raw |-> input[d], parsed |-> EmptyBag,
                    cleaned |-> EmptyBag, filtered |-> EmptyBag]]
    /\ grouped = <<>>
    /\ pairs = <<>>
    /\ lastMerge = <<>>
    /\ sink = EmptyBag
    /\ phase = "transform"
    /\ parseIdle
    /\ recordIdle

One(x) == SetToBag({x})

\* beam.ParDo(ParseCsv(...)) on one line of the file
ParseLine(d) ==
    /\ phase = "transform"
    /\ \E l \in BagToSet(pcoll[d].raw) :
          pcoll' = [pcoll EXCEPT ![d].raw = @ (-) One(l),
                                 ![d].parsed = @ (+) SeqToBag(ParseCsv(Columns(d), l))]
    /\ UNCHANGED <<input, grouped, pairs, lastMerge, sink, phase, parseVars, recordVars>>

\* beam.ParDo(CleanData(...)) on one parsed record; an exception ends the run
CleanRecord(d) ==
    /\ phase = "transform"
    /\ \E r \in BagToSet(pcoll[d].parsed) :
          LET c == CleanData(Cleaner(d), r) IN
          IF IsRaise(c)
          THEN phase' = "failed" /\ pcoll' = pcoll
          ELSE /\ pcoll' = [pcoll EXCEPT ![d].parsed = @ (-) One(r), ![d].cleaned = @ (+) One(c)]
               /\ phase' = phase
    /\ UNCHANGED <<input, grouped, pairs, lastMerge, sink, parseVars, recordVars>>

\* beam.ParDo(FilterBasicData()) or beam.ParDo(FilterRatingData()) on one
\* cleaned record
FilterRecord(d) ==
    /\ phase = "transform"
    /\ \E r \in BagToSet(pcoll[d].cleaned) :
          LET f == Filter(d, r) IN
          IF IsRaise(f)
          THEN phase' = "failed" /\ pcoll' = pcoll
          ELSE /\ pcoll' = [pcoll EXCEPT ![d].cleaned = @ (-) One(r),
                                         ![d].filtered = @ (+) SeqToBag(f.recs)]
               /\ phase' = phase
    /\ UNCHANGED <<input, grouped, pairs, lastMerge, sink, parseVars, recordVars>>

\* a grouping that waits for the basic side only
Materialized_BasicOnly ==
    pcoll["basic"].raw = EmptyBag /\ pcoll["basic"].parsed = EmptyBag
        /\ pcoll["basic"].cleaned = EmptyBag

\* CoGroupByKey groups once both of its inputs are complete
Materialized ==
    \A d \in Datasets :
        pcoll[d].raw = EmptyBag /\ pcoll[d].parsed = EmptyBag /\ pcoll[d].cleaned = EmptyBag

\* the records of a keyed collection ('movie key', 'rating key') under key k
KeyedBy(b, k) == BagToSeq([r \in {x \in BagToSet(b) : x["tconst"] = k} |-> b[r]])

\* {'movie_keys': movie_keys, 'rating_keys': rating_keys} | beam.CoGroupByKey():
\* one element per key of either side, holding the records of each side
CoGroupByKey ==
    /\ phase = "transform"
    /\ Materialized
    /\ LET keys == {r["tconst"] : r \in BagToSet(pcoll["basic"].filtered)
                                       \cup BagToSet(pcoll["rating"].filtered)}
       IN /\ grouped' = [k \in keys |->
                            [movie_keys |-> KeyedBy(pcoll["basic"].filtered, k),
                             rating_keys |-> KeyedBy(pcoll["rating"].filtered, k)]]
          /\ pairs' = [k \in keys |-> [joined |-> FALSE, emitted |-> <<>>, merged |-> {}]]
    /\ phase' = "join"
    /\ UNCHANGED <<input, pcoll, lastMerge, sink, parseVars, recordVars>>

\* beam.FlatMap(join_ratings) on the element of one key
JoinRatings ==
    /\ phase = "join"
    /\ \E k \in DOMAIN pairs :
          /\ ~pairs[k].joined
          /\ pairs' = [pairs EXCEPT ![k] = [joined |-> TRUE,
                                            emitted |-> join_ratings(<<k, grouped[k]>>),
                                            merged |-> {}]]
    /\ UNCHANGED <<input, pcoll, grouped, lastMerge, sink, phase, parseVars, recordVars>>

\* 'mergedicts' >> beam.Map(...) on one joined pair; the merged record goes to
\* the sink
MergeStep ==
    /\ phase = "join"
    /\ \E k \in DOMAIN pairs : \E q \in (1..Len(pairs[k].emitted)) \ pairs[k].merged :
          LET i == pairs[k].emitted[q][1]
              j == pairs[k].emitted[q][2]
              m == MergeDicts(grouped[k].movie_keys[i], grouped[k].rating_keys[j])
          IN /\ grouped' = [grouped EXCEPT ![k].movie_keys[i] = m.left,
                                           ![k].rating_keys[j] = m.right]
             /\ pairs' = [pairs EXCEPT ![k].merged = @ \cup {q}]
             /\ sink' = sink (+) One(m.out)
             /\ lastMerge' = <<[basic |-> grouped[k].movie_keys[i],
                                rating |-> grouped[k].rating_keys[j],
                                out |-> m.out,
                                basicAfter |-> grouped'[k].movie_keys[i],
                                ratingAfter |-> grouped'[k].rating_keys[j]]>>
    /\ UNCHANGED <<input, pcoll, phase, parseVars, recordVars>>

\* p.run() has finished: every key joined, every pair merged and written
Finish ==
    /\ phase = "join"
    /\ \A k \in DOMAIN pairs :
          pairs[k].joined /\ pairs[k].merged = 1..Len(pairs[k].emitted)
    /\ phase' = "done"
    /\ UNCHANGED <<input, pcoll, grouped, pairs, lastMerge, sink, parseVars, recordVars>>

Next ==
    \/ \E d \in Datasets : ParseLine(d)
    \/ \E d \in Datasets : CleanRecord(d)
    \/ \E d \in Datasets : FilterRecord(d)
    \/ CoGroupByKey
    \/ JoinRatings
    \/ MergeStep
    \/ Finish

Spec == Init /\ [][Next]_vars

----------------------------------------------------------------------------
(* Claims about ParseCsv (under SpecParse) *)

\* C2: a raw line whose number of tab-separated fields differs from the number
\* of configured field names produces no record: the parser fails with a
\* MalformedRecordError, and nothing of that line reaches the normalizer.
C2_MalformedLineRejected ==
    (pstage = "parsed" /\ FieldCount(line) # Len(columns_ratings))
        => (rows = Raise("MalformedRecordError") /\ cleanedRows = <<>>)

\* C5: a raw line with exactly the expected number of tab-separated fields
\* yields exactly one record, and joining that record's values in schema order
\* with the tab delimiter reproduces the line.
C5_RoundTrip ==
    (pstage = "parsed" /\ FieldCount(line) = Len(columns_ratings))
        => /\ Len(rows) = 1
           /\ DOMAIN rows[1] = {columns_ratings[j] : j \in 1..Len(columns_ratings)}
           /\ \A k \in DOMAIN rows[1] : rows[1][k].t = "str"
           /\ JoinTab([j \in 1..Len(columns_ratings) |-> rows[1][columns_ratings[j]].s]) = line

----------------------------------------------------------------------------
(* Claims about CleanData and the filters (under SpecRecord) *)

\* C1: normalizing is idempotent: applying CleanData.process to its own output
\* yields a record equal to the output of the first application.
C1_Idempotent == napplied = 2 => rec = prev

NumericCols == cfg.int_cols \cup cfg.float_cols
\* the texts int() and float() accept, by their grammar
Sign == {<<>>, <<"+">>, <<"-">>}
IsIntText(s) == \E sg \in Sign, n \in 1..Len(s) :
    /\ Len(s) = Len(sg) + n
    /\ SubSeq(s, 1, Len(sg)) = sg
    /\ \A j \in (Len(sg) + 1)..Len(s) : IsDigit(s[j])
IsFloatText(s) == \E sg \in Sign, a \in 0..Len(s), p \in 0..1, b \in 0..Len(s) :
    /\ Len(s) = Len(sg) + a + p + b
    /\ a + b >= 1
    /\ SubSeq(s, 1, Len(sg)) = sg
    /\ \A j \in (Len(sg) + 1)..(Len(sg) + a) : IsDigit(s[j])
    /\ p = 1 => s[Len(sg) + a + 1] = "."
    /\ \A j \in (Len(sg) + a + p + 1)..Len(s) : IsDigit(s[j])
ParsesAs(col, s) == IF col \in cfg.int_cols THEN IsIntText(s) ELSE IsFloatText(s)
NumberOf(col, s) == IF col \in cfg.int_cols THEN IntOfText(s) ELSE FloatOfText(s)

\* C3: for every configured integer or float field of a parsed record the
\* normalizer raises nothing; an absent, "\N" or empty raw value gives absent,
\* raw text that parses gives that number, raw text that does not parse gives
\* absent.
C3_NumericBestEffort ==
    napplied = 1 =>
        /\ ~IsRaise(rec)
        /\ \A col \in NumericCols :
            LET raw == rec0[col] IN
            IF raw = PyNone \/ raw = PyStr(SENTINEL) \/ raw = PyStr(<<>>) THEN rec[col] = PyNone
            ELSE IF ParsesAs(col, raw.s) THEN rec[col] = NumberOf(col, raw.s) /\ IsNumber(rec[col])
            ELSE rec[col] = PyNone

\* C3 witness: an integer field whose raw text does not parse has come out
\* absent.
C3_Witness ==
    /\ kind = "probe" /\ napplied = 1
    /\ "x" \in cfg.int_cols /\ rec0["x"] = PyStr(<<"7", ".", "1">>) /\ rec["x"] = PyNone

\* C4: for every configured boolean field the output is false when the raw
\* value is "0" and true for every other non-absent raw value; a raw "\N" is
\* replaced by the absent value and is still absent in the output.
C4_BooleanConvention ==
    napplied = 1 =>
        /\ ~IsRaise(rec)
        /\ \A col \in cfg.bool_cols :
            LET raw == rec0[col] IN
            /\ raw = PyStr(ZERO) => rec[col] = PyBool(FALSE)
            /\ raw = PyStr(SENTINEL) => rec[col] = PyNone
            /\ (raw # PyNone /\ raw # PyStr(ZERO) /\ raw # PyStr(SENTINEL)) => rec[col] = PyBool(TRUE)

\* C6: the basic-dataset filter emits the normalized record, unchanged and
\* exactly once, iff titleType is "movie", isAdult is falsy, startYear is
\* present and startYear >= 1970; otherwise it emits nothing and raises nothing.
C6_BasicPredicate ==
    (kind = "basic" /\ emitted # Pending) =>
        /\ ~IsRaise(emitted)
        /\ IF /\ rec["titleType"] = PyStr(MOVIE)
              /\ rec["isAdult"] \in {PyBool(FALSE), PyNone}
              /\ rec["startYear"] # PyNone
              /\ rec["startYear"].t = "int"
              /\ rec["startYear"].i >= 1970
           THEN emitted.recs = <<rec>>
           ELSE emitted.recs = <<>>

\* C6 witness: a movie of exactly 1970 has passed.
C6_Witness ==
    /\ kind = "basic" /\ emitted # Pending
    /\ rec["startYear"] = PyInt(1970) /\ emitted = Out(<<rec>>)

\* C7: the rating-dataset filter emits the normalized record, unchanged and
\* exactly once, iff averageRating is present and >= 5.0; a record whose
\* averageRating is absent or below 5.0 is dropped without error.
C7_RatingPredicate ==
    (kind = "rating" /\ emitted # Pending) =>
        /\ ~IsRaise(emitted)
        /\ IF /\ rec["averageRating"] # PyNone
              /\ rec["averageRating"].t = "float"
              /\ rec["averageRating"].m >= 5 * Pow10(rec["averageRating"].e)
           THEN emitted.recs = <<rec>>
           ELSE emitted.recs = <<>>

\* C7 witness: a rating of exactly 5.0 has passed.
C7_Witness ==
    /\ kind = "rating" /\ emitted # Pending
    /\ rec["averageRating"] = PyFloat(5, 0) /\ emitted = Out(<<rec>>)

----------------------------------------------------------------------------
(* Claims about the join, the merge and the pipeline (under Spec) *)

FilteredBasic == pcoll["basic"].filtered
FilteredRating == pcoll["rating"].filtered
\* how many records of a bag carry the id k
CountId(b, k) == BagCardinality([r \in {x \in BagToSet(b) : x["tconst"] = k} |-> b[r]])
\* how many of the pairs emitted for key k are the pair (b, r)
CountPair(k, b, r) ==
    Cardinality({q \in 1..Len(pairs[k].emitted) :
                    /\ grouped[k].movie_keys[pairs[k].emitted[q][1]] = b
                    /\ grouped[k].rating_keys[pairs[k].emitted[q][2]] = r})

\* C8: for each distinct id the joiner emits exactly the Cartesian product of
\* the basic records with that id and the rating records with that id (m x n
\* pairs), and zero pairs for an id that occurs on one side only.
C8_InnerJoin ==
    phase \in {"join", "done"} =>
        /\ DOMAIN pairs = {r["tconst"] : r \in BagToSet(FilteredBasic) \cup BagToSet(FilteredRating)}
        /\ \A k \in DOMAIN pairs :
              pairs[k].joined =>
                  /\ Len(pairs[k].emitted) = CountId(FilteredBasic, k) * CountId(FilteredRating, k)
                  /\ \A b \in BagToSet(FilteredBasic), r \in BagToSet(FilteredRating) :
                        CountPair(k, b, r) =
                            IF b["tconst"] = k /\ r["tconst"] = k
                            THEN CopiesIn(b, FilteredBasic) * CopiesIn(r, FilteredRating)
                            ELSE 0

\* C8 witness: an id with two basic records and one rating record has been
\* joined into two pairs.
C8_Witness ==
    /\ phase = "join"
    /\ \E k \in DOMAIN pairs :
          /\ pairs[k].joined
          /\ Len(grouped[k].movie_keys) = 2
          /\ Len(grouped[k].rating_keys) = 1
          /\ Len(pairs[k].emitted) = 2

\* C9: the merged record's field set is the union of both records' field
\* names; a field of only one record keeps that record's value, a field of
\* both takes the rating record's value; the merge modifies neither record.
C9_MergeRatingWins ==
    \A j \in 1..Len(lastMerge) :
        LET m == lastMerge[j] IN
        /\ DOMAIN m.out = DOMAIN m.basic \cup DOMAIN m.rating
        /\ \A f \in DOMAIN m.out :
              /\ f \in DOMAIN m.rating => m.out[f] = m.rating[f]
              /\ f \notin DOMAIN m.rating => m.out[f] = m.basic[f]
        /\ m.basicAfter = m.basic
        /\ m.ratingAfter = m.rating

\* C9 witness: a pair whose records hold different values under a common field
\* name has been merged.
C9_Witness ==
    /\ lastMerge # <<>>
    /\ \E f \in DOMAIN lastMerge[1].basic \cap DOMAIN lastMerge[1].rating :
          lastMerge[1].basic[f] # lastMerge[1].rating[f]
    /\ \E f \in DOMAIN lastMerge[1].basic : f \notin DOMAIN lastMerge[1].rating

\* a single-threaded scan of one file, line by line: the records that pass
RECURSIVE KeepPassed(_, _, _)
KeepPassed(d, recs, n) ==
    IF n > Len(recs) THEN <<>>
    ELSE Filter(d, CleanData(Cleaner(d), recs[n])).recs \o KeepPassed(d, recs, n + 1)
RECURSIVE ScanFile(_, _, _)
ScanFile(d, lines, n) ==
    IF n > Len(lines) THEN <<>>
    ELSE KeepPassed(d, ParseCsv(Columns(d), lines[n]), 1) \o ScanFile(d, lines, n + 1)
\* a nested-loop join of the two scans, merged
RECURSIVE LoopJoin(_, _, _)
LoopJoin(bs, rs, q) ==
    IF q > Len(bs) * Len(rs) THEN EmptyBag
    ELSE LET b == bs[((q - 1) \div Len(rs)) + 1]
             r == rs[((q - 1) % Len(rs)) + 1]
         IN (IF b["tconst"] = r["tconst"]
             THEN One([k \in DOMAIN b \cup DOMAIN r |-> IF k \in DOMAIN r THEN r[k] ELSE b[k]])
             ELSE EmptyBag) (+) LoopJoin(bs, rs, q + 1)
SequentialScan ==
    LoopJoin(ScanFile("basic", BagToSeq(input["basic"]), 1),
             ScanFile("rating", BagToSeq(input["rating"]), 1), 1)

\* C10: whatever the interleaving of the per-record parse, normalize and
\* filter steps across records and across the two datasets, the multiset of
\* merged records delivered to the sink is that of a sequential scan.
C10_OrderInsensitive == phase = "done" => sink = SequentialScan

\* C10 witness: a run has finished with two merged records in the sink.
C10_Witness == phase = "done" /\ BagCardinality(sink) = 2

====
